---- MODULE Spec2Model ----
(***************************************************************************)
(* The dispatch core of cqrs: RequestDispatcher, EventDispatcher           *)
(* (src/cqrs/dispatcher/dispatcher.py) and RequestMediator, EventMediator  *)
(* (src/cqrs/mediator.py).                                                 *)
(*                                                                         *)
(* Every coroutine is a flow with a program counter; each action is one    *)
(* stretch of code between two suspension points (await).  The registry    *)
(* maps, the middleware chain, the container and the emitter are the       *)
(* collaborators the two files call into; their behaviour is drawn         *)
(* nondeterministically from what their contracts allow.                   *)
(***************************************************************************)
EXTENDS Integers, Sequences, FiniteSets, TLC

\* ---------------------------------------------------------------- bounds
MaxSends == 2
MaxEvents == 2
MaxHandlers == 2

\* ------------------------------------------------------------ value sets
Flows == {"f1", "f2"}
None == "None"

RequestTypes == {"CmdA", "CmdB", "CmdC"}
CommandHandlerTypes == {"HA", "HB"}
EventTypes == {"E1", "E2"}
EventHandlerTypes == {"Notify", "Audit"}
Chains == {<<>>, <<"A">>, <<"A", "B">>}
Responses == {"R1"}

Requests == [type : RequestTypes]
Events == [type : EventTypes]

\* type(x): the identity under which a message is routed
TypeOf(message) == message.type

\* ------------------------------------------------------------- sequences
SeqsUpTo(S, n) == UNION {[1 .. k -> S] : k \in 0 .. n}

Last(s) == s[Len(s)]
Front(s) == SubSeq(s, 1, Len(s) - 1)
Reverse(s) == [i \in 1 .. Len(s) |-> s[Len(s) + 1 - i]]
IsPrefix(s, t) == Len(s) <= Len(t) /\ s = SubSeq(t, 1, Len(s))
SelectKind(s, kind) == SelectSeq(s, LAMBDA step : step[1] = kind)

\* -------------------------------------------------------------- the state
VARIABLES
    request_map,       \* RequestDispatcher._request_map
    event_map,         \* EventDispatcher._event_map
    middleware_chain,  \* RequestDispatcher._middleware_chain
    ev_middleware_chain, \* EventDispatcher._middleware_chain
    event_emitter,     \* RequestMediator._event_emitter
    singletons,        \* handler types the container keeps one instance of
    handler_events,    \* handler.events of every command handler instance
    pc,                \* position of each flow
    request,           \* send / dispatch: request
    handler_type,      \* dispatch: handler_type
    handler,           \* dispatch: handler (the resolved instance)
    depth,             \* number of middlewares of the chain entered
    response,          \* dispatch: response
    dispatch_result,   \* send: dispatch_result
    events,            \* _send_events: events (the list being drained)
    event,             \* _send_events / EventDispatcher.dispatch: event
    ev_caller,         \* who awaits EventDispatcher.dispatch
    handler_types,     \* EventDispatcher.dispatch: handler_types
    h_index,           \* position of the for loop over handler_types
    error,             \* the exception the caller of send receives
    result,            \* the value send returned to its caller
    trace,             \* calls the flow made on its collaborators, in order
    recorded,          \* the events the resolved handler holds
    produced,          \* the events handle recorded during this call
    emitted,           \* the events EventEmitter.emit received, in order
    raised,            \* the exception as the failing collaborator raised it
    sends,             \* mediator send calls begun
    dispatched,        \* RequestDispatcher.dispatch calls that found a binding
    resolved           \* Container.resolve calls made by RequestDispatcher

config == <<request_map, event_map, middleware_chain, ev_middleware_chain,
            event_emitter, singletons>>
request_side == <<request, handler_type, handler, depth, response,
                  dispatch_result, events, recorded, produced>>
event_side == <<event, ev_caller, handler_types, h_index>>
failure == <<error, raised>>
counters == <<sends, dispatched, resolved>>
vars == <<config, handler_events, pc, request_side, event_side, failure,
          result, trace, emitted, counters>>

\* --------------------------------------------------------- collaborators
EventMaps ==
    UNION {[D -> SeqsUpTo(EventHandlerTypes, MaxHandlers)] :
               D \in SUBSET EventTypes}

Instances == CommandHandlerTypes \X ({"shared"} \cup Flows)

\* RequestMap.get: the bound handler type, or a Routing Error
RequestMapGet(request_type) ==
    IF request_type \in DOMAIN request_map
    THEN [ok |-> TRUE, value |-> request_map[request_type]]
    ELSE [ok |-> FALSE, value |-> <<"RoutingError", request_type>>]

\* EventMap.get: the bound handler types in binding order, possibly none
EventMapGet(event_type) ==
    IF event_type \in DOMAIN event_map THEN event_map[event_type] ELSE <<>>

\* Container.resolve: the instance handed out for a command handler type
ContainerResolve(f, type) ==
    IF type \in singletons THEN <<type, "shared">> ELSE <<type, f>>

NoResult == [response |-> None, events |-> <<>>]
NoError == <<>>
NoHandler == <<>>
NoMessage == [type |-> None]

RequestDispatchResultNoResponse(resp, evs) ==
    [response |-> None, events |-> evs]

\* RequestDispatchResult(response=..., events=...)
RequestDispatchResult(resp, evs) == [response |-> resp, events |-> evs]

\* every flow is idle, no handler instance has recorded anything
Start ==
    /\ handler_events = [i \in Instances |-> <<>>]
    /\ pc = [f \in Flows |-> "idle"]
    /\ request = [f \in Flows |-> NoMessage]
    /\ handler_type = [f \in Flows |-> None]
    /\ handler = [f \in Flows |-> NoHandler]
    /\ depth = [f \in Flows |-> 0]
    /\ response = [f \in Flows |-> None]
    /\ dispatch_result = [f \in Flows |-> NoResult]
    /\ events = [f \in Flows |-> <<>>]
    /\ event = [f \in Flows |-> NoMessage]
    /\ ev_caller = [f \in Flows |-> None]
    /\ handler_types = [f \in Flows |-> <<>>]
    /\ h_index = [f \in Flows |-> 0]
    /\ error = [f \in Flows |-> NoError]
    /\ raised = [f \in Flows |-> NoError]
    /\ result = [f \in Flows |-> None]
    /\ trace = [f \in Flows |-> <<>>]
    /\ recorded = [f \in Flows |-> <<>>]
    /\ produced = [f \in Flows |-> <<>>]
    /\ emitted = [f \in Flows |-> <<>>]
    /\ sends = 0
    /\ dispatched = 0
    /\ resolved = 0

\* the wiring of a RequestMediator: two request types bound, one not; its
\* emitter, when it dispatches locally, does so over LocalEventMap, which
\* binds two handlers to one event type and none to the other
BoundRequestMap ==
    [t \in {"CmdA", "CmdB"} |-> IF t = "CmdA" THEN "HA" ELSE "HB"]
LocalEventMap == [t \in {"E1"} |-> <<"Notify", "Audit">>]

\* the container creates a handler per resolve under every chain and
\* emitter, or keeps one instance of HA, with no middleware and a broker
Init ==
    /\ request_map = BoundRequestMap
    /\ event_map = LocalEventMap
    /\ ev_middleware_chain = <<>>
    /\ \/ /\ middleware_chain \in Chains
          /\ event_emitter \in {None, "broker", "local"}
          /\ singletons = {}
       \/ /\ middleware_chain = <<>>
          /\ event_emitter = "broker"
          /\ singletons = {"HA"}
    /\ Start

\* the wiring of an EventMediator: only the event map is read; the
\* dispatcher it builds through dispatcher_type may have been given a chain,
\* and the application may have an emitter
InitEvents ==
    /\ request_map = <<>>
    /\ event_map \in EventMaps
    /\ middleware_chain = <<>>
    /\ ev_middleware_chain \in Chains
    /\ event_emitter \in {None, "broker"}
    /\ singletons = {}
    /\ Start

\* -------------------------------------------------------------- helpers
Goto(f, label) == pc' = [pc EXCEPT ![f] = label]
Log(f, step) == trace' = [trace EXCEPT ![f] = Append(@, step)]

PropagateTranslated(exc) == <<"MediatorError", exc[1]>>

\* no frame between the failing call and the caller of send has an except
\* clause: the caller receives the exception object that was raised
Propagate(exc) == exc

RaiseSuppressedInDrain(f, exc) ==
    /\ pc' = [pc EXCEPT ![f] = IF @ = "emitting" THEN "drain" ELSE "failed"]
    /\ raised' = [raised EXCEPT ![f] = exc]
    /\ error' = [error EXCEPT ![f] = Propagate(exc)]

\* an exception leaves every frame up to the caller of send: the call ends
Raise(f, exc) ==
    /\ pc' = [pc EXCEPT ![f] = "failed"]
    /\ raised' = [raised EXCEPT ![f] = exc]
    /\ error' = [error EXCEPT ![f] = Propagate(exc)]

\* a new call on the mediator: the locals of the previous call are gone, and
\* so is the handler instance that was created for it
Fresh(f) ==
    /\ handler_events' =
           [i \in Instances |-> IF i[2] = f THEN <<>> ELSE handler_events[i]]
    /\ handler_type' = [handler_type EXCEPT ![f] = None]
    /\ handler' = [handler EXCEPT ![f] = NoHandler]
    /\ depth' = [depth EXCEPT ![f] = 0]
    /\ response' = [response EXCEPT ![f] = None]
    /\ dispatch_result' = [dispatch_result EXCEPT ![f] = NoResult]
    /\ events' = [events EXCEPT ![f] = <<>>]
    /\ recorded' = [recorded EXCEPT ![f] = <<>>]
    /\ produced' = [produced EXCEPT ![f] = <<>>]
    /\ handler_types' = [handler_types EXCEPT ![f] = <<>>]
    /\ h_index' = [h_index EXCEPT ![f] = 0]
    /\ error' = [error EXCEPT ![f] = NoError]
    /\ raised' = [raised EXCEPT ![f] = NoError]
    /\ result' = [result EXCEPT ![f] = None]
    /\ trace' = [trace EXCEPT ![f] = <<>>]
    /\ emitted' = [emitted EXCEPT ![f] = <<>>]

Callable(f) == pc[f] \in {"idle", "done", "failed"} /\ sends < MaxSends

\* ------------------------------------------------------- RequestMediator
\* RequestMediator.send is called: it awaits RequestDispatcher.dispatch
Send(f) ==
    /\ Callable(f)
    /\ \E r \in Requests : request' = [request EXCEPT ![f] = r]
    /\ Fresh(f)
    /\ event' = [event EXCEPT ![f] = NoMessage]
    /\ ev_caller' = [ev_caller EXCEPT ![f] = None]
    /\ sends' = sends + 1
    /\ Goto(f, "dispatch")
    /\ UNCHANGED <<config, dispatched, resolved>>

\* ----------------------------------------------------- RequestDispatcher
DispatchGetUnchecked(f) ==
    /\ pc[f] = "dispatch"
    /\ LET got == RequestMapGet(TypeOf(request[f])) IN
         handler_type' =
             [handler_type EXCEPT ![f] = IF got.ok THEN got.value ELSE None]
    /\ dispatched' = dispatched + 1
    /\ Goto(f, "resolve")
    /\ UNCHANGED <<config, handler_events, request, handler, depth, response,
                   dispatch_result, events, recorded, produced,
                   event_side, failure,
                   result, trace, emitted, sends, resolved>>

\* handler_type = self._request_map.get(type(request))
DispatchGet(f) ==
    /\ pc[f] = "dispatch"
    /\ LET got == RequestMapGet(TypeOf(request[f])) IN
       IF got.ok
       THEN /\ handler_type' = [handler_type EXCEPT ![f] = got.value]
            /\ dispatched' = dispatched + 1
            /\ Goto(f, "resolve")
            /\ UNCHANGED failure
       ELSE /\ Raise(f, got.value)
            /\ UNCHANGED <<handler_type, dispatched>>
    /\ UNCHANGED <<config, handler_events, request, handler, depth, response,
                   dispatch_result, events, recorded, produced,
                   event_side, result,
                   trace, emitted, sends, resolved>>

ResolveCached(f) ==
    /\ pc[f] = "resolve"
    /\ resolved' = IF resolved = 0 THEN 1 ELSE resolved
    /\ Log(f, <<"resolve", handler_type[f]>>)
    /\ LET instance == ContainerResolve(f, handler_type[f]) IN
         /\ handler' = [handler EXCEPT ![f] = instance]
         /\ recorded' = [recorded EXCEPT ![f] = handler_events[instance]]
    /\ Goto(f, "call")
    /\ UNCHANGED <<config, handler_events, request, handler_type, depth,
                   response, dispatch_result, events, produced, event_side,
                   failure,
                   result, emitted, sends, dispatched>>

\* handler = await self._container.resolve(handler_type)
Resolve(f) ==
    /\ pc[f] = "resolve"
    /\ resolved' = resolved + 1
    /\ Log(f, <<"resolve", handler_type[f]>>)
    /\ \/ LET instance == ContainerResolve(f, handler_type[f])
              held == IF handler_type[f] \in singletons
                      THEN handler_events[instance] ELSE <<>> IN
            /\ handler' = [handler EXCEPT ![f] = instance]
            /\ handler_events' = [handler_events EXCEPT ![instance] = held]
            /\ recorded' = [recorded EXCEPT ![f] = held]
            /\ Goto(f, "call")
            /\ UNCHANGED failure
       \/ /\ Raise(f, <<"ResolutionError", handler_type[f]>>)
          /\ UNCHANGED <<handler, handler_events, recorded>>
    /\ UNCHANGED <<config, request, handler_type, depth, response,
                   dispatch_result, events, produced, event_side, result,
                   emitted, sends, dispatched>>

WrappedChainNone == <<>>

\* wrapped_handle = self._middleware_chain.wrap(handler.handle): the
\* middlewares around handler.handle, the first registered outermost
WrappedChain == middleware_chain

\* await wrapped_handle(request): the next middleware of the chain is entered;
\* it calls next(request), returns a response of its own, or raises
MiddlewarePre(f) ==
    /\ pc[f] = "call"
    /\ depth[f] < Len(WrappedChain)
    /\ LET m == WrappedChain[depth[f] + 1] IN
       \/ /\ Log(f, <<"pre", m, "next">>)
          /\ depth' = [depth EXCEPT ![f] = @ + 1]
          /\ UNCHANGED <<pc, response, failure>>
       \/ /\ Log(f, <<"pre", m, "return">>)
          /\ \E r \in Responses \cup {None} :
                 response' = [response EXCEPT ![f] = r]
          /\ Goto(f, "return")
          /\ UNCHANGED <<depth, failure>>
       \/ /\ Log(f, <<"pre", m, "raise">>)
          /\ Raise(f, <<"MiddlewareError", m>>)
          /\ UNCHANGED <<depth, response>>
    /\ UNCHANGED <<config, handler_events, request, handler_type, handler,
                   dispatch_result, events, recorded, produced,
                   event_side, result,
                   emitted, counters>>

\* await wrapped_handle(request): the innermost callable, handler.handle,
\* records events on the handler, then returns a response or raises
Handle(f) ==
    /\ pc[f] = "call"
    /\ depth[f] = Len(WrappedChain)
    /\ Log(f, <<"handle", handler_type[f], TypeOf(request[f])>>)
    /\ \E new \in SeqsUpTo(Events, MaxEvents) :
         LET held == handler_events[handler[f]] \o new IN
           /\ handler_events' = [handler_events EXCEPT ![handler[f]] = held]
           /\ recorded' = [recorded EXCEPT ![f] = held]
           /\ produced' = [produced EXCEPT ![f] = new]
    /\ \/ /\ \E r \in Responses \cup {None} :
                 response' = [response EXCEPT ![f] = r]
          /\ Goto(f, "return")
          /\ UNCHANGED failure
       \/ /\ Raise(f, <<"HandlerError", handler_type[f]>>)
          /\ UNCHANGED response
    /\ UNCHANGED <<config, request, handler_type, handler, depth,
                   dispatch_result, events, event_side, result, emitted,
                   counters>>

\* await wrapped_handle(request): next(request) returned to a middleware; it
\* returns that response or another one, or raises
MiddlewarePost(f) ==
    /\ pc[f] = "return"
    /\ depth[f] > 0
    /\ LET m == WrappedChain[depth[f]] IN
       /\ Log(f, <<"post", m>>)
       /\ \/ /\ depth' = [depth EXCEPT ![f] = @ - 1]
             /\ \/ UNCHANGED response
                \/ \E r \in Responses \cup {None} :
                       response' = [response EXCEPT ![f] = r]
             /\ UNCHANGED <<pc, failure>>
          \/ /\ Raise(f, <<"MiddlewareError", m>>)
             /\ UNCHANGED <<depth, response>>
    /\ UNCHANGED <<config, handler_events, request, handler_type, handler,
                   dispatch_result, events, recorded, produced,
                   event_side, result,
                   emitted, counters>>

DispatchReturnShared(f) ==
    /\ pc[f] = "return"
    /\ depth[f] = 0
    /\ dispatch_result' =
           [dispatch_result EXCEPT
               ![f] = RequestDispatchResult(
                          response[f],
                          handler_events[<<handler_type[f], "f1">>]
                              \o handler_events[<<handler_type[f], "f2">>])]
    /\ Goto(f, "dispatched")
    /\ UNCHANGED <<config, handler_events, request, handler_type, handler,
                   depth, response, events, recorded, produced, event_side,
                   failure, result, trace, emitted, counters>>

\* return RequestDispatchResult(response=response, events=handler.events)
DispatchReturn(f) ==
    /\ pc[f] = "return"
    /\ depth[f] = 0
    /\ dispatch_result' =
           [dispatch_result EXCEPT
               ![f] = RequestDispatchResult(response[f],
                                            handler_events[handler[f]])]
    /\ Goto(f, "dispatched")
    /\ UNCHANGED <<config, handler_events, request, handler_type, handler,
                   depth, response, events, recorded, produced,
                   event_side, failure,
                   result, trace, emitted, counters>>

\* ------------------------------------------------------- RequestMediator
HasEmitterAlways == TRUE

\* _send_events: if not self._event_emitter: return
HasEmitter == event_emitter # None

SendEventsDiscarded(f) ==
    /\ pc[f] = "dispatched"
    /\ Goto(f, "respond")
    /\ UNCHANGED <<config, handler_events, request_side, event_side, failure,
                   result, trace, emitted, counters>>

\* if dispatch_result.events: await self._send_events(events.copy())
SendEvents(f) ==
    /\ pc[f] = "dispatched"
    /\ IF dispatch_result[f].events # <<>> /\ HasEmitter
       THEN /\ events' = [events EXCEPT ![f] = dispatch_result[f].events]
            /\ Goto(f, "drain")
       ELSE /\ Goto(f, "respond")
            /\ UNCHANGED events
    /\ UNCHANGED <<config, handler_events, request, handler_type, handler,
                   depth, response, dispatch_result, recorded, produced,
                   event_side,
                   failure, result, trace, emitted, counters>>

PopFirst(list) == [event |-> Head(list), rest |-> Tail(list)]

\* events.pop()
Pop(list) == [event |-> Last(list), rest |-> Front(list)]

EmitCallAliased(f) ==
    /\ pc[f] = "drain"
    /\ IF events[f] # <<>>
       THEN LET popped == Pop(events[f]) IN
              /\ event' = [event EXCEPT ![f] = popped.event]
              /\ events' = [events EXCEPT ![f] = popped.rest]
              /\ handler_events' =
                     [handler_events EXCEPT ![handler[f]] = popped.rest]
              /\ emitted' = [emitted EXCEPT ![f] = Append(@, popped.event)]
              /\ Log(f, <<"emit", TypeOf(popped.event)>>)
              /\ Goto(f, "emitting")
       ELSE /\ Goto(f, "respond")
            /\ UNCHANGED <<event, events, handler_events, emitted, trace>>
    /\ UNCHANGED <<config, request, handler_type, handler, depth, response,
                   dispatch_result, recorded, produced, ev_caller,
                   handler_types, h_index, failure, result, counters>>

EmitCallDetached(f) ==
    /\ pc[f] = "drain"
    /\ IF events[f] # <<>>
       THEN LET popped == Pop(events[f]) IN
              /\ event' = [event EXCEPT ![f] = popped.event]
              /\ events' = [events EXCEPT ![f] = popped.rest]
              /\ emitted' = [emitted EXCEPT ![f] = Append(@, popped.event)]
              /\ Log(f, <<"emit", TypeOf(popped.event)>>)
              /\ UNCHANGED pc
       ELSE /\ Goto(f, "respond")
            /\ UNCHANGED <<event, events, emitted, trace>>
    /\ UNCHANGED <<config, handler_events, request, handler_type, handler,
                   depth, response, dispatch_result, recorded, produced,
                   ev_caller, handler_types, h_index, failure, result,
                   counters>>

\* while events: event = events.pop(); await self._event_emitter.emit(event)
EmitCall(f) ==
    /\ pc[f] = "drain"
    /\ IF events[f] # <<>>
       THEN LET popped == Pop(events[f]) IN
              /\ event' = [event EXCEPT ![f] = popped.event]
              /\ events' = [events EXCEPT ![f] = popped.rest]
              /\ emitted' = [emitted EXCEPT ![f] = Append(@, popped.event)]
              /\ Log(f, <<"emit", TypeOf(popped.event)>>)
              /\ Goto(f, "emitting")
       ELSE /\ Goto(f, "respond")
            /\ UNCHANGED <<event, events, emitted, trace>>
    /\ UNCHANGED <<config, handler_events, request, handler_type, handler,
                   depth, response, dispatch_result, recorded, produced,
                   ev_caller,
                   handler_types, h_index, failure, result, counters>>

\* EventEmitter.emit publishes the event to the broker and returns, or fails
EmitBroker(f) ==
    /\ pc[f] = "emitting"
    /\ event_emitter = "broker"
    /\ \/ /\ Log(f, <<"emit_done", TypeOf(event[f])>>)
          /\ Goto(f, "drain")
          /\ UNCHANGED failure
       \/ /\ Raise(f, <<"EmitError", TypeOf(event[f])>>)
          /\ UNCHANGED trace
    /\ UNCHANGED <<config, handler_events, request_side, event_side, result,
                   emitted, counters>>

\* EventEmitter.emit hands the event to EventDispatcher.dispatch
EmitLocal(f) ==
    /\ pc[f] = "emitting"
    /\ event_emitter = "local"
    /\ ev_caller' = [ev_caller EXCEPT ![f] = "emit"]
    /\ Goto(f, "ev_dispatch")
    /\ UNCHANGED <<config, handler_events, request_side, event,
                   handler_types, h_index, failure, result, trace, emitted,
                   counters>>

SendReturnNever(f) ==
    /\ pc[f] = "respond"
    /\ FALSE
    /\ UNCHANGED vars

SendReturnEarly(f) ==
    /\ pc[f] \in {"respond", "emitting"}
    /\ result' = [result EXCEPT ![f] = dispatch_result[f].response]
    /\ Goto(f, "done")
    /\ UNCHANGED <<config, handler_events, request_side, event_side, failure,
                   trace, emitted, counters>>

\* return dispatch_result.response
SendReturn(f) ==
    /\ pc[f] = "respond"
    /\ result' = [result EXCEPT ![f] = dispatch_result[f].response]
    /\ Goto(f, "done")
    /\ UNCHANGED <<config, handler_events, request_side, event_side, failure,
                   trace, emitted, counters>>

\* --------------------------------------------------------- EventMediator
EventSendThroughEmitter(f) ==
    /\ Callable(f)
    /\ \E e \in Events :
           /\ event' = [event EXCEPT ![f] = e]
           /\ emitted' = [emitted EXCEPT ![f] = <<e>>]
           /\ trace' = [trace EXCEPT ![f] = <<<<"emit", TypeOf(e)>>>>]
    /\ handler_events' =
           [i \in Instances |-> IF i[2] = f THEN <<>> ELSE handler_events[i]]
    /\ request' = [request EXCEPT ![f] = NoMessage]
    /\ ev_caller' = [ev_caller EXCEPT ![f] = "mediator"]
    /\ sends' = sends + 1
    /\ Goto(f, "ev_dispatch")
    /\ UNCHANGED <<config, handler_type, handler, depth, response,
                   dispatch_result, events, recorded, produced,
                   handler_types, h_index, failure, result, dispatched,
                   resolved>>

\* EventMediator.send: await self._dispatcher.dispatch(event)
EventSend(f) ==
    /\ Callable(f)
    /\ \E e \in Events : event' = [event EXCEPT ![f] = e]
    /\ Fresh(f)
    /\ request' = [request EXCEPT ![f] = NoMessage]
    /\ ev_caller' = [ev_caller EXCEPT ![f] = "mediator"]
    /\ sends' = sends + 1
    /\ Goto(f, "ev_dispatch")
    /\ UNCHANGED <<config, dispatched, resolved>>

\* ------------------------------------------------------- EventDispatcher
WarnsNever(types) == FALSE

\* if not handler_types: logger.warning(...)
Warns(types) == types = <<>>

\* handler_types = self._event_map.get(type(event)), then the warning
EventDispatch(f) ==
    /\ pc[f] = "ev_dispatch"
    /\ LET types == EventMapGet(TypeOf(event[f])) IN
         /\ handler_types' = [handler_types EXCEPT ![f] = types]
         /\ IF Warns(types)
            THEN Log(f, <<"warning", TypeOf(event[f])>>)
            ELSE UNCHANGED trace
    /\ h_index' = [h_index EXCEPT ![f] = 1]
    /\ Goto(f, "ev_loop")
    /\ UNCHANGED <<config, handler_events, request_side, event, ev_caller,
                   failure, result, emitted, counters>>

HTypeReversed(f) == handler_types[f][Len(handler_types[f]) + 1 - h_index[f]]

\* for h_type in handler_types
HType(f) == handler_types[f][h_index[f]]

\* _handle_event: handler = await self._container.resolve(handle_type)
EventResolve(f) ==
    /\ pc[f] = "ev_loop"
    /\ h_index[f] <= Len(handler_types[f])
    /\ Log(f, <<"ev_resolve", HType(f)>>)
    /\ \/ /\ Goto(f, "ev_handle")
          /\ UNCHANGED failure
       \/ Raise(f, <<"ResolutionError", HType(f)>>)
    /\ UNCHANGED <<config, handler_events, request_side, event_side, result,
                   emitted, counters>>

EventWrappedChainStored == ev_middleware_chain

\* _handle_event calls handler.handle itself: the chain __init__ stored in
\* self._middleware_chain is never read, nothing is wrapped around the call
EventWrappedChain == <<>>

\* the pre-steps of a chain, the call, the post-steps of the chain
Around(chain, step) ==
    [i \in 1 .. Len(chain) |-> <<"pre", chain[i], "next">>]
        \o <<step>>
        \o [i \in 1 .. Len(chain) |-> <<"post", chain[Len(chain) + 1 - i]>>]

EventHandleIsolated(f) ==
    /\ pc[f] = "ev_handle"
    /\ Log(f, <<"ev_handle", HType(f), TypeOf(event[f])>>)
    /\ h_index' = [h_index EXCEPT ![f] = @ + 1]
    /\ Goto(f, "ev_loop")
    /\ \/ UNCHANGED failure
       \/ /\ raised' = [raised EXCEPT ![f] = <<"HandlerError", HType(f)>>]
          /\ UNCHANGED error
    /\ UNCHANGED <<config, handler_events, request_side, event, ev_caller,
                   handler_types, result, emitted, counters>>

\* _handle_event: await handler.handle(event)
EventHandle(f) ==
    /\ pc[f] = "ev_handle"
    /\ trace' = [trace EXCEPT
                    ![f] = @ \o Around(EventWrappedChain,
                                       <<"ev_handle", HType(f),
                                         TypeOf(event[f])>>)]
    /\ \/ /\ h_index' = [h_index EXCEPT ![f] = @ + 1]
          /\ Goto(f, "ev_loop")
          /\ UNCHANGED failure
       \/ /\ Raise(f, <<"HandlerError", HType(f)>>)
          /\ UNCHANGED h_index
    /\ UNCHANGED <<config, handler_events, request_side, event, ev_caller,
                   handler_types, result, emitted, counters>>

\* the for loop is exhausted: dispatch returns to whoever awaited it, the
\* emit call of a drain loop or EventMediator.send
EventReturn(f) ==
    /\ pc[f] = "ev_loop"
    /\ h_index[f] > Len(handler_types[f])
    /\ IF ev_caller[f] = "emit"
       THEN /\ Log(f, <<"emit_done", TypeOf(event[f])>>)
            /\ Goto(f, "drain")
       ELSE /\ Goto(f, "done")
            /\ UNCHANGED trace
    /\ UNCHANGED <<config, handler_events, request_side, event_side, failure,
                   result, emitted, counters>>

\* ------------------------------------------------------- specifications
RequestStep(f) ==
    \/ Send(f)
    \/ DispatchGet(f)
    \/ Resolve(f)
    \/ MiddlewarePre(f)
    \/ Handle(f)
    \/ MiddlewarePost(f)
    \/ DispatchReturn(f)
    \/ SendEvents(f)
    \/ EmitCall(f)
    \/ EmitBroker(f)
    \/ EmitLocal(f)
    \/ SendReturn(f)

EventStep(f) ==
    \/ EventDispatch(f)
    \/ EventResolve(f)
    \/ EventHandle(f)
    \/ EventReturn(f)

\* one caller of a RequestMediator: each send is awaited before the next
Next == RequestStep("f1") \/ EventStep("f1")

Spec == Init /\ [][Next]_vars

\* the steps of a send that is under way: every awaited call of the running
\* flow (resolve, middleware, handle, emit, event handler) completes, and the
\* event loop resumes the flow; the caller is not obliged to send again
Running(f) ==
    \/ DispatchGet(f)
    \/ Resolve(f)
    \/ MiddlewarePre(f)
    \/ Handle(f)
    \/ MiddlewarePost(f)
    \/ DispatchReturn(f)
    \/ SendEvents(f)
    \/ EmitCall(f)
    \/ EmitBroker(f)
    \/ EmitLocal(f)
    \/ SendReturn(f)
    \/ EventStep(f)

SpecFair == Init /\ [][Next]_vars /\ WF_vars(Running("f1"))

\* one caller of an EventMediator
NextEvents == EventSend("f1") \/ EventStep("f1")

SpecEvents == InitEvents /\ [][NextEvents]_vars

\* two callers of one RequestMediator whose sends interleave at every await;
\* the container creates a handler instance for each resolve, no middleware
\* is registered and the emitter publishes to the broker
InitConcurrent ==
    /\ request_map = BoundRequestMap
    /\ event_map = LocalEventMap
    /\ middleware_chain = <<>>
    /\ ev_middleware_chain = <<>>
    /\ event_emitter = "broker"
    /\ singletons = {}
    /\ Start

ConcurrentStep(f) ==
    \/ Send(f)
    \/ DispatchGet(f)
    \/ Resolve(f)
    \/ Handle(f)
    \/ DispatchReturn(f)
    \/ SendEvents(f)
    \/ EmitCall(f)
    \/ EmitBroker(f)
    \/ SendReturn(f)

NextConcurrent == \E f \in Flows : ConcurrentStep(f)

SpecConcurrent == InitConcurrent /\ [][NextConcurrent]_vars

\* ------------------------------------------------------------- the claims
\* the flow is inside, or has finished, a send of a request with a binding
Bound(f) == request[f] # NoMessage /\ TypeOf(request[f]) \in DOMAIN request_map

\* the steps of one kind the flow has made in this send, in order
Kinds(f, kind) == SelectKind(trace[f], kind)

\* RequestDispatcher.dispatch has returned its result to send
DispatchReturned(f) ==
    /\ request[f] # NoMessage
    /\ pc[f] \in {"dispatched", "drain", "emitting", "respond", "done",
                  "ev_dispatch", "ev_loop", "ev_handle"}

\* every middleware entered so far called its next callable
AllCalledNext(f) ==
    \A i \in 1 .. Len(trace[f]) :
        trace[f][i][1] = "pre" => trace[f][i][3] = "next"

\* resolve, pre-steps in registration order, handle, post-steps in reverse
Onion(chain, h, t) ==
    <<<<"resolve", h>>>>
        \o [i \in 1 .. Len(chain) |-> <<"pre", chain[i], "next">>]
        \o <<<<"handle", h, t>>>>
        \o [i \in 1 .. Len(chain) |-> <<"post", chain[Len(chain) + 1 - i]>>]

\* resolve h1, handle h1, resolve h2, handle h2, ...
ExpectedSteps(types, t) ==
    [i \in 1 .. 2 * Len(types) |->
        IF i % 2 = 1 THEN <<"ev_resolve", types[(i + 1) \div 2]>>
        ELSE <<"ev_handle", types[i \div 2], t>>]

\* the event's type has no binding at all, or an empty one
ZeroBound(t) == t \notin DOMAIN event_map \/ event_map[t] = <<>>

\* C1: with an emitter configured, the emit calls of a send are at every
\* moment a prefix of the handler's recorded events read backwards, and when
\* the send has returned they are exactly those events, one emit call each,
\* the last recorded first.
C1_EmitsInReverseOrder ==
    \A f \in Flows :
        request[f] # NoMessage =>
            /\ IsPrefix(emitted[f], Reverse(recorded[f]))
            /\ (pc[f] = "done" /\ event_emitter # None) =>
                   /\ emitted[f] = Reverse(recorded[f])
                   /\ Len(Kinds(f, "emit")) = Len(recorded[f])

C1_Witness ==
    /\ pc["f1"] = "done"
    /\ event_emitter = "broker"
    /\ Len(recorded["f1"]) = 2
    /\ recorded["f1"][1] # recorded["f1"][2]
    /\ emitted["f1"] = <<recorded["f1"][2], recorded["f1"][1]>>

\* C2: a send of a request whose type has no binding fails with the Routing
\* Error as soon as the lookup is made: no resolve, no middleware, no handler
\* and no emit call is made, and nothing is returned.
C2_UnboundFailsBeforeResolve ==
    /\ resolved <= dispatched
    /\ \A f \in Flows :
           (/\ request[f] # NoMessage
            /\ TypeOf(request[f]) \notin DOMAIN request_map
            /\ pc[f] # "dispatch") =>
               /\ pc[f] = "failed"
               /\ error[f] = <<"RoutingError", TypeOf(request[f])>>
               /\ trace[f] = <<>>
               /\ emitted[f] = <<>>
               /\ handler[f] = NoHandler
               /\ result[f] = None

C2_Witness ==
    /\ pc["f1"] = "failed"
    /\ error["f1"] = <<"RoutingError", "CmdC">>
    /\ resolved = dispatched

\* C3: EventDispatcher.dispatch of an event whose type has no bound handler
\* (no binding, or an empty one) logs exactly one warning naming the type,
\* calls neither resolve nor handle, raises nothing and returns.
C3_ZeroHandlersWarnOnce ==
    \A f \in Flows :
        (/\ event[f] # NoMessage
         /\ ZeroBound(TypeOf(event[f]))
         /\ pc[f] # "ev_dispatch") =>
            /\ pc[f] \in {"ev_loop", "done"}
            /\ raised[f] = NoError
            /\ error[f] = NoError
            /\ trace[f] = <<<<"warning", TypeOf(event[f])>>>>

C3_Witness ==
    /\ pc["f1"] = "done"
    /\ TypeOf(event["f1"]) \notin DOMAIN event_map
    /\ trace["f1"] = <<<<"warning", TypeOf(event["f1"])>>>>

\* C4: EventDispatcher.dispatch of an event with N >= 1 bound handler types,
\* when it returns, has resolved and then invoked each of them once, in the
\* order of the binding, and has logged no warning.
C4_AllHandlersInBindingOrder ==
    \A f \in Flows :
        (/\ event[f] # NoMessage
         /\ pc[f] = "done"
         /\ ~ZeroBound(TypeOf(event[f]))) =>
            trace[f] = ExpectedSteps(event_map[TypeOf(event[f])],
                                     TypeOf(event[f]))

C4_Witness ==
    /\ pc["f1"] = "done"
    /\ event["f1"] # NoMessage
    /\ ~ZeroBound(TypeOf(event["f1"]))
    /\ Len(event_map[TypeOf(event["f1"])]) = 2
    /\ event_map[TypeOf(event["f1"])][1] # event_map[TypeOf(event["f1"])][2]
    /\ Len(Kinds("f1", "ev_handle")) = 2

\* C5 as stated: k dispatches ask the container k times, and every dispatch
\* of a request bound to H that returns has asked the container once, for H,
\* and has invoked the resolved handler's handle exactly once, with the
\* request.
C5_HandleExactlyOnce ==
    /\ resolved = dispatched - Cardinality({f \in Flows : pc[f] = "resolve"})
    /\ \A f \in Flows :
           (Bound(f) /\ DispatchReturned(f)) =>
               LET h == request_map[TypeOf(request[f])] IN
                 /\ Kinds(f, "resolve") = <<<<"resolve", h>>>>
                 /\ Kinds(f, "handle") =
                        <<<<"handle", h, TypeOf(request[f])>>>>

\* C5 as amended: every dispatch of a request bound to H asks the container
\* once, for H, so k dispatches ask it k times; handle is invoked at most
\* once, on that handler with that request, and exactly once when the
\* dispatch returns and every middleware called its next callable.
C5_ResolveOncePerDispatch ==
    /\ resolved = dispatched - Cardinality({f \in Flows : pc[f] = "resolve"})
    /\ \A f \in Flows :
           (Bound(f) /\ pc[f] \notin {"dispatch", "resolve"}) =>
               LET h == request_map[TypeOf(request[f])]
                   handles == Kinds(f, "handle") IN
                 /\ Kinds(f, "resolve") = <<<<"resolve", h>>>>
                 /\ Len(handles) <= 1
                 /\ handles # <<>> =>
                        handles[1] = <<"handle", h, TypeOf(request[f])>>
                 /\ (DispatchReturned(f) /\ AllCalledNext(f)) =>
                        Len(handles) = 1

C5_Witness ==
    /\ pc["f1"] = "done"
    /\ sends = 2
    /\ dispatched = 2
    /\ resolved = 2
    /\ "HA" \in singletons
    /\ TypeOf(request["f1"]) = "CmdA"
    /\ Len(Kinds("f1", "handle")) = 1

\* C6: a send that returns, returns the response the wrapped handler
\* produced, absent or not, whatever the number of recorded events and
\* whether or not an emitter is configured.
C6_SendReturnsResponse ==
    \A f \in Flows :
        (pc[f] = "done" /\ request[f] # NoMessage) => result[f] = response[f]

C6_Witness ==
    /\ pc["f1"] = "done"
    /\ event_emitter = "broker"
    /\ Len(emitted["f1"]) = 2
    /\ response["f1"] = "R1"
    /\ result["f1"] = "R1"

\* C7: when every middleware of the chain calls its next callable, a
\* dispatch that returns has made its calls in the order resolve, the
\* pre-steps in registration order, handle, the post-steps in reverse
\* order; with an empty chain that is resolve, handle.
C7_OnionOrder ==
    \A f \in Flows :
        (Bound(f) /\ DispatchReturned(f) /\ AllCalledNext(f)) =>
            IsPrefix(Onion(middleware_chain,
                           request_map[TypeOf(request[f])],
                           TypeOf(request[f])),
                     trace[f])

C7_Witness ==
    /\ pc["f1"] = "dispatched"
    /\ middleware_chain = <<"A", "B">>
    /\ trace["f1"] = <<<<"resolve", "HA">>, <<"pre", "A", "next">>,
                       <<"pre", "B", "next">>, <<"handle", "HA", "CmdA">>,
                       <<"post", "B">>, <<"post", "A">>>>

\* C8: without an emitter a send never enters the drain loop, makes no emit
\* call and invokes no event handler; it fails only if the dispatch failed,
\* and when it returns it returns the handler's response.
C8_NoEmitterDiscards ==
    \A f \in Flows :
        (event_emitter = None /\ request[f] # NoMessage) =>
            /\ pc[f] \notin {"drain", "emitting", "ev_dispatch", "ev_loop",
                             "ev_handle"}
            /\ emitted[f] = <<>>
            /\ Kinds(f, "emit") = <<>>
            /\ Kinds(f, "ev_handle") = <<>>
            /\ pc[f] = "failed" => dispatch_result[f] = NoResult
            /\ pc[f] = "done" => result[f] = response[f]

C8_Witness ==
    /\ event_emitter = None
    /\ pc["f1"] = "done"
    /\ Len(recorded["f1"]) = 2
    /\ result["f1"] = "R1"

\* C9: the calls of one EventDispatcher.dispatch are a prefix of resolve h1,
\* handle h1, resolve h2, handle h2, ...; a failure of resolve or handle of
\* h(k) ends the dispatch with that same exception, after the handlers
\* before h(k) have run and before any handler after h(k) is resolved.
C9_SequentialAbortOnFailure ==
    \A f \in Flows :
        (event[f] # NoMessage /\ pc[f] # "ev_dispatch" /\ handler_types[f] # <<>>)
        => LET types == handler_types[f]
               k == h_index[f] IN
             /\ IsPrefix(trace[f], ExpectedSteps(types, TypeOf(event[f])))
             /\ raised[f] # NoError => (pc[f] = "failed" /\ error[f] = raised[f])
             /\ pc[f] = "failed" =>
                    \/ /\ raised[f] = <<"ResolutionError", types[k]>>
                       /\ Len(trace[f]) = 2 * k - 1
                    \/ /\ raised[f] = <<"HandlerError", types[k]>>
                       /\ Len(trace[f]) = 2 * k

C9_Witness ==
    /\ pc["f1"] = "failed"
    /\ Len(handler_types["f1"]) = 2
    /\ h_index["f1"] = 1
    /\ error["f1"] = <<"HandlerError", handler_types["f1"][1]>>
    /\ Len(trace["f1"]) = 2

\* C10: when resolve, a middleware or the command handler raises, send fails
\* with that same exception, returns nothing and makes no emit call, also
\* when the handler had recorded events before it raised.
C10_DispatchFailurePropagates ==
    \A f \in Flows :
        (/\ request[f] # NoMessage
         /\ raised[f] # NoError
         /\ raised[f][1] \in {"ResolutionError", "MiddlewareError",
                              "HandlerError"}
         /\ raised[f][2] \notin EventHandlerTypes) =>
            /\ pc[f] = "failed"
            /\ error[f] = raised[f]
            /\ result[f] = None
            /\ emitted[f] = <<>>
            /\ Kinds(f, "emit") = <<>>

C10_Witness ==
    /\ pc["f1"] = "failed"
    /\ error["f1"] = <<"HandlerError", "HA">>
    /\ Len(recorded["f1"]) = 2
    /\ event_emitter = "broker"
    /\ emitted["f1"] = <<>>

\* C11: the events a DispatchResult carries are exactly those the handler
\* recorded during that dispatch call, also when the container hands out the
\* same handler instance again, so a send emits only events its own handle
\* call recorded, each of them once, and none of an earlier send.
C11_CarriesOnlyEventsOfThisCall ==
    \A f \in Flows :
        request[f] # NoMessage =>
            /\ DispatchReturned(f) => dispatch_result[f].events = produced[f]
            /\ IsPrefix(emitted[f], Reverse(produced[f]))
            /\ (pc[f] = "done" /\ event_emitter # None) =>
                   emitted[f] = Reverse(produced[f])

\* the emit calls of this send that were begun, and those that returned
EmitsBegun(f) == Len(Kinds(f, "emit"))
EmitsCompleted(f) == Len(Kinds(f, "emit_done"))

\* the steps RequestDispatcher.dispatch makes on its collaborators
DispatchKinds == {"resolve", "pre", "handle", "post"}

\* the number of steps of the dispatch this send has made
DispatchSteps(f) ==
    Len(SelectSeq(trace[f], LAMBDA step : step[1] \in DispatchKinds))

\* C12: within one send no emit call is made while RequestDispatcher.dispatch
\* runs, every step of the dispatch (resolve, middleware pre-logic, handle,
\* middleware post-logic) precedes the first emit call, and the send returns
\* only when the drained list is empty and every emit call it began has
\* completed.
C12_DispatchThenEmitsThenReturn ==
    \A f \in Flows :
        request[f] # NoMessage =>
            /\ pc[f] \in {"dispatch", "resolve", "call", "return",
                          "dispatched"} =>
                   (EmitsBegun(f) = 0 /\ emitted[f] = <<>>)
            /\ \A i \in 1 .. DispatchSteps(f) :
                   trace[f][i][1] \in DispatchKinds
            /\ pc[f] = "done" =>
                   /\ events[f] = <<>>
                   /\ EmitsCompleted(f) = EmitsBegun(f)
                   /\ EmitsBegun(f) > 0 => Last(trace[f])[1] = "emit_done"

C12_Witness ==
    /\ pc["f1"] = "done"
    /\ middleware_chain = <<"A", "B">>
    /\ event_emitter = "broker"
    /\ result["f1"] = "R1"
    /\ Kinds("f1", "handle") # <<>>
    /\ EmitsBegun("f1") = 2
    /\ EmitsCompleted("f1") = 2
    /\ trace["f1"][4][1] = "handle"
    /\ trace["f1"][6][1] = "post"
    /\ trace["f1"][7][1] = "emit"

\* the emit calls of this send and their returns, in the order they happened
EmitSteps(f) ==
    SelectSeq(trace[f], LAMBDA step : step[1] \in {"emit", "emit_done"})

\* the emit calls of this send that were begun and have not returned
InFlight(f) == EmitsBegun(f) - EmitsCompleted(f)

\* C13: the emit calls of one send never overlap: calls and returns
\* alternate, each return being that of the call before it, so at most one
\* emit call is in flight, and the loop pops the next event only when none
\* is.
C13_EmitsNeverOverlap ==
    \A f \in Flows :
        request[f] # NoMessage =>
            /\ InFlight(f) \in {0, 1}
            /\ \A i \in 1 .. Len(EmitSteps(f)) :
                   IF i % 2 = 1
                   THEN EmitSteps(f)[i][1] = "emit"
                   ELSE EmitSteps(f)[i] =
                            <<"emit_done", EmitSteps(f)[i - 1][2]>>
            /\ pc[f] \in {"drain", "respond", "done"} => InFlight(f) = 0
            /\ pc[f] \in {"emitting", "ev_dispatch", "ev_loop", "ev_handle"}
                   => InFlight(f) = 1

C13_Witness ==
    /\ pc["f1"] = "emitting"
    /\ EmitsBegun("f1") = 2
    /\ EmitsCompleted("f1") = 1
    /\ EmitSteps("f1") = <<<<"emit", "E2">>, <<"emit_done", "E2">>,
                           <<"emit", "E1">>>>

\* the wiring of the end-to-end example: the command is bound to a handler,
\* the event's type to NotifyHandler then AuditHandler, no middleware is
\* registered and the emitter dispatches locally through EventDispatcher
ExampleWiring ==
    /\ "CmdA" \in DOMAIN request_map
    /\ request_map["CmdA"] = "HA"
    /\ "E1" \in DOMAIN event_map
    /\ event_map["E1"] = <<"Notify", "Audit">>
    /\ middleware_chain = <<>>
    /\ event_emitter = "local"

\* the calls of the example, from the resolve of the command handler to the
\* return of the one emit call
ExampleSteps ==
    <<<<"resolve", "HA">>, <<"handle", "HA", "CmdA">>, <<"emit", "E1">>>>
        \o ExpectedSteps(<<"Notify", "Audit">>, "E1")
        \o <<<<"emit_done", "E1">>>>

\* C14: in the example wiring, a send of the command whose handler holds the
\* one event E makes its calls in the order handle, emit(E), NotifyHandler
\* with E, AuditHandler with E; when the handler returned R and the send
\* returns, it returns R and each of the two event handlers was invoked
\* exactly once with E, Notify before Audit, after the command handler.
C14_EndToEndExample ==
    \A f \in Flows :
        (/\ ExampleWiring
         /\ request[f] = [type |-> "CmdA"]
         /\ Kinds(f, "handle") # <<>>
         /\ recorded[f] = <<[type |-> "E1"]>>) =>
            /\ IsPrefix(trace[f], ExampleSteps)
            /\ (pc[f] = "done" /\ response[f] = "R1") =>
                   /\ result[f] = "R1"
                   /\ trace[f] = ExampleSteps
                   /\ Kinds(f, "ev_handle") =
                          <<<<"ev_handle", "Notify", "E1">>,
                            <<"ev_handle", "Audit", "E1">>>>

C14_Witness ==
    /\ ExampleWiring
    /\ pc["f1"] = "done"
    /\ request["f1"] = [type |-> "CmdA"]
    /\ recorded["f1"] = <<[type |-> "E1"]>>
    /\ result["f1"] = "R1"
    /\ trace["f1"] = ExampleSteps

\* the steps EventDispatcher.dispatch may make for an event of type t
EventSteps(t) ==
    IF ZeroBound(t) THEN <<<<"warning", t>>>>
    ELSE ExpectedSteps(event_map[t], t)

\* C15: EventMediator.send only delegates to EventDispatcher.dispatch: no
\* emit call is made, also when the application has an emitter; no handler's
\* recorded events, dispatch result or drained list is read or written; the
\* only handlers resolved and invoked are those bound to the event's type,
\* once each; and a failure reaches the caller as it was raised.
C15_EventSendOnlyDelegates ==
    \A f \in Flows :
        (event[f] # NoMessage /\ ev_caller[f] = "mediator") =>
            /\ emitted[f] = <<>>
            /\ Kinds(f, "emit") = <<>>
            /\ handler_events = [i \in Instances |-> <<>>]
            /\ recorded[f] = <<>>
            /\ produced[f] = <<>>
            /\ events[f] = <<>>
            /\ dispatch_result[f] = NoResult
            /\ result[f] = None
            /\ IsPrefix(trace[f], EventSteps(TypeOf(event[f])))
            /\ pc[f] = "done" => trace[f] = EventSteps(TypeOf(event[f]))
            /\ error[f] = raised[f]
            /\ pc[f] = "failed" <=> raised[f] # NoError

C15_Witness ==
    /\ event_emitter = "broker"
    /\ pc["f1"] = "failed"
    /\ ev_caller["f1"] = "mediator"
    /\ Len(handler_types["f1"]) = 2
    /\ raised["f1"] = <<"HandlerError", handler_types["f1"][2]>>
    /\ error["f1"] = raised["f1"]
    /\ Len(Kinds("f1", "ev_handle")) = 2
    /\ emitted["f1"] = <<>>

\* C19: EventDispatcher.dispatch runs no middleware, also when a non-empty
\* chain was passed to its constructor: its steps hold no middleware pre- or
\* post-step, and every handle of an event handler directly follows the
\* resolve of that handler.
C19_EventDispatchRunsNoMiddleware ==
    \A f \in Flows :
        event[f] # NoMessage =>
            /\ Kinds(f, "pre") = <<>>
            /\ Kinds(f, "post") = <<>>
            /\ \A i \in 1 .. Len(trace[f]) :
                   trace[f][i][1] = "ev_handle" =>
                       /\ i > 1
                       /\ trace[f][i - 1] = <<"ev_resolve", trace[f][i][2]>>

C19_Witness ==
    /\ ev_middleware_chain = <<"A", "B">>
    /\ pc["f1"] = "done"
    /\ Len(handler_types["f1"]) = 2
    /\ Len(Kinds("f1", "ev_handle")) = 2
    /\ Len(trace["f1"]) = 4

\* C16: when the sends of two callers interleave and the container creates a
\* handler instance for each resolve, each send works on its own instance,
\* its dispatch result carries the events its own handle call recorded, its
\* emit calls are at every moment a prefix of those events read backwards
\* and all of them when it returns, and it returns its own handler's
\* response, whatever the other send does in between.
C16_InterleavedSendsAreIsolated ==
    \A f \in Flows :
        request[f] # NoMessage =>
            /\ handler[f] # NoHandler => handler[f] = <<handler_type[f], f>>
            /\ pc[f] \in {"return", "failed"} /\ handler[f] # NoHandler =>
                   handler_events[handler[f]] = produced[f]
            /\ DispatchReturned(f) =>
                   /\ dispatch_result[f].events = produced[f]
                   /\ dispatch_result[f].response = response[f]
            /\ IsPrefix(emitted[f], Reverse(produced[f]))
            /\ Len(Kinds(f, "emit")) = Len(emitted[f])
            /\ pc[f] = "done" =>
                   /\ emitted[f] = Reverse(produced[f])
                   /\ result[f] = response[f]

C16_Witness ==
    /\ pc["f1"] = "emitting"
    /\ pc["f2"] = "emitting"
    /\ handler_type["f1"] = "HA"
    /\ handler_type["f2"] = "HA"
    /\ handler["f1"] # handler["f2"]
    /\ Len(produced["f1"]) = 2
    /\ Len(produced["f2"]) = 2
    /\ produced["f1"] # produced["f2"]
    /\ emitted["f1"] = <<produced["f1"][2]>>
    /\ emitted["f2"] = <<produced["f2"][2]>>

\* the emit call of the drain loop failed: the emitter raised, or a handler
\* or the container did inside the emitter's local dispatch
EmitFailed(f) ==
    /\ request[f] # NoMessage
    /\ raised[f] # NoError
    /\ EmitsBegun(f) > 0

\* C17: when an emit call fails while send drains the events e1..en, last
\* first, send fails with that same exception and returns no response; the
\* events emitted are those from en down to the failing one, each once, still
\* counted as emitted; the events recorded before the failing one are never
\* passed to emit; and no emit call is made again.
C17_EmitFailureAbortsDrain ==
    \A f \in Flows :
        EmitFailed(f) =>
            LET n == Len(recorded[f])
                k == Len(emitted[f]) IN
              /\ pc[f] = "failed"
              /\ error[f] = raised[f]
              /\ result[f] = None
              /\ dispatch_result[f].response = response[f]
              /\ k >= 1 /\ k <= n
              /\ emitted[f] = SubSeq(Reverse(recorded[f]), 1, k)
              /\ events[f] = SubSeq(recorded[f], 1, n - k)
              /\ event[f] = recorded[f][n - k + 1]
              /\ EmitsBegun(f) = k
              /\ EmitsCompleted(f) = k - 1

C17_Witness ==
    /\ pc["f1"] = "failed"
    /\ event_emitter = "broker"
    /\ response["f1"] = "R1"
    /\ result["f1"] = None
    /\ Len(recorded["f1"]) = 3
    /\ emitted["f1"] = <<recorded["f1"][3], recorded["f1"][2]>>
    /\ events["f1"] = <<recorded["f1"][1]>>
    /\ error["f1"] = <<"EmitError", TypeOf(recorded["f1"][2])>>

\* the wrapped handler of this send has returned or raised
AfterHandle(f) ==
    /\ request[f] # NoMessage
    /\ handler[f] # NoHandler
    /\ pc[f] \in {"return", "dispatched", "drain", "emitting", "respond",
                  "done", "failed", "ev_dispatch", "ev_loop", "ev_handle"}

\* the resolved handler's list is as handle left it
HandlerListKept ==
    \A f \in Flows :
        AfterHandle(f) => handler_events[handler[f]] = recorded[f]

\* no step of a send changes the RequestMap or the middleware chain, and
\* from the end of handle on no step of that send changes the handler's list
SendFrame ==
    /\ request_map' = request_map
    /\ middleware_chain' = middleware_chain
    /\ \A f \in Flows :
           (AfterHandle(f) /\ pc'[f] # "dispatch") =>
               handler_events'[handler[f]] = handler_events[handler[f]]

\* C18: send drains a copy: once handle has finished, and after send has
\* returned or failed, the handler's own list of recorded events still has
\* the content and order handle left, whatever was popped and emitted; and
\* no step changes the RequestMap or the middleware chain.
C18_DrainsPrivateCopy == []HandlerListKept /\ [][SendFrame]_vars

C18_Witness ==
    /\ pc["f1"] = "done"
    /\ event_emitter = "broker"
    /\ Len(recorded["f1"]) = 2
    /\ Len(emitted["f1"]) = 2
    /\ events["f1"] = <<>>
    /\ handler_events[handler["f1"]] = recorded["f1"]

\* a send is under way
InSend(f) == pc[f] \notin {"idle", "done", "failed"}

\* the drain loop never makes more iterations than the result carried events,
\* and a send that returns with an emitter configured has made exactly that
\* many, all completed, one for every recorded event
DrainIterations ==
    \A f \in Flows :
        request[f] # NoMessage =>
            /\ EmitsBegun(f) <= Len(recorded[f])
            /\ (pc[f] = "done" /\ event_emitter # None) =>
                   /\ EmitsBegun(f) = Len(recorded[f])
                   /\ EmitsCompleted(f) = Len(recorded[f])
                   /\ emitted[f] = Reverse(recorded[f])
                   /\ events[f] = <<>>

\* C20: when every awaited call of the running flow completes, every send
\* that is under way eventually returns or fails; a send that returns with an
\* emitter configured has emitted every recorded event, in exactly as many
\* iterations of the drain loop as there are recorded events.
C20_SendTerminates ==
    /\ []DrainIterations
    /\ \A f \in Flows : InSend(f) ~> pc[f] \in {"done", "failed"}

C20_Witness ==
    /\ pc["f1"] = "done"
    /\ sends = 2
    /\ middleware_chain = <<"A">>
    /\ event_emitter = "local"
    /\ Len(recorded["f1"]) = 2
    /\ EmitsBegun("f1") = 2
    /\ EmitsCompleted("f1") = 2

====
